---- MODULE Spec2Model ----
(***************************************************************************)
(* A model of the trusty file storage service: the upload pipeline, the    *)
(* owner-scoped file repository, download and delete (filemanager.rs), the *)
(* throttled stats cache (stats.rs), the credential checks (user.rs), and  *)
(* signup, tokens and the signing key (auth.rs).                           *)
(*                                                                         *)
(* Every request is a task that moves from one await point to the next;    *)
(* tasks interleave at await points.  The database and the disk answer     *)
(* each call with success or with an error (IoResults).                    *)
(***************************************************************************)
EXTENDS Integers, Sequences, FiniteSets, TLC

VARIABLES
  files,       \* the rows of table files
  blobs,       \* the blob store: path -> [written, flushed]
  dirs,        \* the user directories that exist under storage_root
  nextId,      \* the supply of Uuid::new_v4 values
  req,         \* the request tasks: slot -> locals and position
  deleted204,  \* history: ids for which a delete request answered 204
  started,     \* history: the number of requests received
  now,         \* the clock, in milliseconds
  cache,       \* the StatsCache behind the mutex: [sys, last_refresh]
  lock,        \* the request that holds the mutex of the cache, or 0
  pg,          \* one list request seen through its page arithmetic
  ls,          \* a client paging through one listing
  users,       \* the rows of table users
  cu,          \* one call of UserRepository::create_user
  su,          \* the signup and login tasks: slot -> locals and position
  tk,          \* one token from its issue to its verification
  ks           \* one call of Keys::new

fvars == <<files, blobs, dirs, nextId, req, deleted204, started, now>>
svars == <<cache, lock>>
ovars == <<pg, ls, users, cu>>
avars == <<su, tk, ks>>
vars == <<fvars, svars, ovars, avars>>

(***************************************************************************)
(* Bounds of the model.                                                    *)
(***************************************************************************)
MaxStarts == 3   \* requests received in one behaviour
MaxIds == 2      \* file ids generated in one behaviour
MaxChunks == 2   \* chunks of one file part
MaxTime == 700   \* the clock stops here

\* the request tasks in flight at once
Reqs == {1, 2}
Users == {"u1", "u2"}
Ids == 1..MaxIds

(***************************************************************************)
(* filemanager.rs                                                          *)
(***************************************************************************)
MAX_FILE_SIZE == 100 * 1024 * 1024

\* the sizes a chunk of the stream may have
ChunkSizes == {1, MAX_FILE_SIZE}
\* what a database or disk call may answer
IoResults == {"ok", "err"}
\* the metadata parts a client may send: original_name and the declared size
MetadataInputs == [original_name : {<<"a">>}, size_bytes : {0, 1}]

\* format!("{}/{}.bin", claims.user_id, id)
Path(user_id, id) == <<user_id, id>>
NoPath == <<"", 0>>

NoMetadata == [some |-> FALSE, original_name |-> <<>>, size_bytes |-> 0]
NoFile == [id |-> 0, user_id |-> "", original_name |-> <<>>, size_bytes |-> 0,
           storage_path |-> NoPath, created_at |-> 0]

\* FileError::into_response
StatusOf(e) ==
  CASE e = "DatabaseError" -> 500
    [] e = "NotFound" -> 404
    [] e = "Unauthorized" -> 403
    [] e = "StorageError" -> 500
    [] e = "InvalidMetadata" -> 400
    [] e = "InternalError" -> 500

\* the locals of get_stats: the values read under the lock, the file
\* aggregate, and history (the clock at the call, the cache before and after
\* refresh_if_needed, the aggregate of the committed rows at the query)
NoCache == [sys |-> 0, last_refresh |-> 0]
NoStats ==
  [cpu_usage |-> 0, disk_used |-> 0, total_files |-> 0,
   total_file_size |-> 0, called_at |-> 0, before |-> NoCache,
   seen |-> NoCache, committed |-> <<0, 0>>]

Idle ==
  [op |-> "idle", user |-> "", pc |-> "idle", resp |-> 0, target |-> 0,
   after |-> {}, metadata |-> NoMetadata, file_id |-> 0,
   storage_path |-> NoPath, actual_size |-> 0, id |-> 0, size |-> 0,
   chunks |-> 0, chunk |-> 0, file |-> NoFile,
   ioerr |-> FALSE, gen |-> {}, st |-> NoStats]

\* the task has its response: the locals of the loop are out of scope
Finish(q, status) ==
  [q EXCEPT !.pc = "done", !.resp = status, !.size = 0,
            !.chunks = 0, !.chunk = 0]
\* a handler returns Err(e): the request ends with e's status and every
\* local is dropped
Fail(r, e) ==
  [Idle EXCEPT !.op = req[r].op, !.user = req[r].user, !.pc = "done",
               !.resp = StatusOf(e), !.target = req[r].target,
               !.after = req[r].after, !.gen = req[r].gen]
\* the same, after a database or disk call of this request failed
FailIo(r, e) == [Fail(r, e) EXCEPT !.ioerr = TRUE]

\* the request arrives with verified claims of user u
Start(r) ==
  /\ req[r].pc \in {"idle", "done"}
  /\ started < MaxStarts
  /\ started' = started + 1
  /\ \E u \in Users :
       \/ req' = [req EXCEPT ![r] = [Idle EXCEPT !.op = "upload", !.user = u,
                                      !.pc = "next_field"]]
       \/ \E op \in {"download", "delete"}, id \in Ids :
            req' = [req EXCEPT ![r] = [Idle EXCEPT !.op = op, !.user = u,
                                        !.pc = "get", !.target = id,
                                        !.after = IF op = "download"
                                                  THEN deleted204 ELSE {}]]
  /\ UNCHANGED <<files, blobs, dirs, nextId, deleted204, now>>

\* mutant: the cap check rejects a part of exactly the cap size
ExceedsCapInclusive(size) == size >= MAX_FILE_SIZE

\* size > MAX_FILE_SIZE
ExceedsCap(size) == size > MAX_FILE_SIZE

\* mutant: the row records the size the metadata part declares
NewFileDeclared(q) ==
  [id |-> q.file_id, user_id |-> q.user,
   original_name |-> q.metadata.original_name,
   size_bytes |-> q.metadata.size_bytes, storage_path |-> q.storage_path,
   created_at |-> now]

\* the File row upload_file builds after the loop
NewFile(q) ==
  [id |-> q.file_id, user_id |-> q.user,
   original_name |-> q.metadata.original_name,
   size_bytes |-> q.actual_size, storage_path |-> q.storage_path,
   created_at |-> now]

\* after the loop: the three ok_or(InvalidMetadata) checks
AfterLoop(r) ==
  IF ~req[r].metadata.some \/ req[r].file_id = 0 \/ req[r].storage_path = NoPath
  THEN Fail(r, "InvalidMetadata")
  ELSE [req[r] EXCEPT !.pc = "insert"]

\* multipart.next_field().await and the dispatch on the field's name:
\* an error, the end of the body, a metadata part (parsed or not), a part
\* of another name (skipped), a file part
UploadNextField(r) ==
  /\ req[r].op = "upload" /\ req[r].pc = "next_field"
  /\ \/ /\ req' = [req EXCEPT ![r] = Fail(r, "InvalidMetadata")]
        /\ UNCHANGED nextId
     \/ /\ req' = [req EXCEPT ![r] = AfterLoop(r)]
        /\ UNCHANGED nextId
     \/ \E m \in MetadataInputs :
          /\ req' = [req EXCEPT ![r].metadata =
                       [some |-> TRUE, original_name |-> m.original_name,
                        size_bytes |-> m.size_bytes]]
          /\ UNCHANGED nextId
     \/ /\ UNCHANGED <<req, nextId>>
     \/ /\ nextId <= MaxIds
        /\ req' = [req EXCEPT ![r].id = nextId, ![r].size = 0,
                     ![r].chunks = 0, ![r].gen = @ \cup {nextId},
                     ![r].pc = "create_dir"]
        /\ nextId' = nextId + 1
  /\ UNCHANGED <<files, blobs, dirs, deleted204, started, now>>

\* tokio::fs::create_dir_all(parent)
UploadCreateDir(r) ==
  /\ req[r].op = "upload" /\ req[r].pc = "create_dir"
  /\ \E res \in IoResults :
       IF res = "ok"
       THEN /\ dirs' = dirs \cup {req[r].user}
            /\ req' = [req EXCEPT ![r].pc = "create"]
       ELSE /\ req' = [req EXCEPT ![r] = FailIo(r, "StorageError")]
            /\ UNCHANGED dirs
  /\ UNCHANGED <<files, blobs, nextId, deleted204, started, now>>

\* a blob store with path p set to b
WithBlob(p, b) ==
  [x \in DOMAIN blobs \cup {p} |-> IF x = p THEN b ELSE blobs[x]]
\* a blob store without path p
WithoutBlob(p) == [x \in DOMAIN blobs \ {p} |-> blobs[x]]

\* tokio::fs::File::create(&full_path)
UploadCreate(r) ==
  /\ req[r].op = "upload" /\ req[r].pc = "create"
  /\ \E res \in IoResults :
       IF res = "ok" /\ req[r].user \in dirs
       THEN /\ blobs' = WithBlob(Path(req[r].user, req[r].id),
                                 [written |-> 0, flushed |-> FALSE])
            /\ req' = [req EXCEPT ![r].pc = "chunk"]
       ELSE /\ req' = [req EXCEPT ![r] = FailIo(r, "StorageError")]
            /\ UNCHANGED blobs
  /\ UNCHANGED <<files, dirs, nextId, deleted204, started, now>>

\* stream.chunk().await, size += chunk.len() and the cap check
UploadChunk(r) ==
  /\ req[r].op = "upload" /\ req[r].pc = "chunk"
  /\ \/ req' = [req EXCEPT ![r] = FailIo(r, "StorageError")]
     \/ req' = [req EXCEPT ![r].pc = "flush"]
     \/ /\ req[r].chunks < MaxChunks
        /\ \E n \in ChunkSizes :
             req' = [req EXCEPT ![r].chunks = @ + 1,
                       ![r].size = @ + n,
                       ![r].chunk = n,
                       ![r].pc = IF ExceedsCap(req[r].size + n)
                                 THEN "cleanup" ELSE "write"]
  /\ UNCHANGED <<files, blobs, dirs, nextId, deleted204, started, now>>

\* drop(file_handle); let _ = remove_file(&full_path).await; return Err
\* (id and size are kept as history: the path that was being written and
\* the bytes received for it)
UploadCleanup(r) ==
  /\ req[r].op = "upload" /\ req[r].pc = "cleanup"
  /\ \E res \in IoResults :
       /\ blobs' = IF res = "ok"
                   THEN WithoutBlob(Path(req[r].user, req[r].id))
                   ELSE blobs
       /\ req' = [req EXCEPT ![r] =
                    [Fail(r, "InvalidMetadata") EXCEPT
                       !.id = req[r].id, !.size = req[r].size,
                       !.ioerr = (res = "err")]]
  /\ UNCHANGED <<files, dirs, nextId, deleted204, started, now>>

\* file_handle.write_all(&chunk).await
UploadWrite(r) ==
  /\ req[r].op = "upload" /\ req[r].pc = "write"
  /\ LET p == Path(req[r].user, req[r].id) IN
     \/ /\ blobs' = [blobs EXCEPT ![p].written = @ + req[r].chunk]
        /\ req' = [req EXCEPT ![r].pc = "chunk"]
     \/ \E k \in {0, req[r].chunk - 1} :
          /\ blobs' = [blobs EXCEPT ![p].written = @ + k]
          /\ req' = [req EXCEPT ![r] = FailIo(r, "StorageError")]
  /\ UNCHANGED <<files, dirs, nextId, deleted204, started, now>>

\* mutant: the result of flush is ignored
UploadFlushUnchecked(r) ==
  /\ req[r].op = "upload" /\ req[r].pc = "flush"
  /\ LET p == Path(req[r].user, req[r].id) IN
     \E res \in IoResults :
       /\ blobs' = IF res = "ok" THEN [blobs EXCEPT ![p].flushed = TRUE]
                   ELSE blobs
       /\ req' = [req EXCEPT ![r].actual_size = req[r].size,
                    ![r].file_id = req[r].id,
                    ![r].storage_path = p,
                    ![r].size = 0, ![r].chunks = 0, ![r].chunk = 0,
                    ![r].pc = "next_field"]
  /\ UNCHANGED <<files, dirs, nextId, deleted204, started, now>>

\* file_handle.flush().await, then actual_size, file_id and storage_path
UploadFlush(r) ==
  /\ req[r].op = "upload" /\ req[r].pc = "flush"
  /\ LET p == Path(req[r].user, req[r].id) IN
     \E res \in IoResults :
       IF res = "ok"
       THEN /\ blobs' = [blobs EXCEPT ![p].flushed = TRUE]
            /\ req' = [req EXCEPT ![r].actual_size = req[r].size,
                         ![r].file_id = req[r].id,
                         ![r].storage_path = p,
                         ![r].size = 0, ![r].chunks = 0, ![r].chunk = 0,
                         ![r].pc = "next_field"]
       ELSE /\ UNCHANGED blobs
            /\ req' = [req EXCEPT ![r] = FailIo(r, "StorageError")]
  /\ UNCHANGED <<files, dirs, nextId, deleted204, started, now>>

\* FileRepository::create_file and the 201 response
UploadInsert(r) ==
  /\ req[r].op = "upload" /\ req[r].pc = "insert"
  /\ \E res \in IoResults :
       IF res = "ok"
       THEN /\ files' = files \cup {NewFile(req[r])}
            /\ req' = [req EXCEPT ![r] = Finish(req[r], 201)]
       ELSE /\ UNCHANGED files
            /\ req' = [req EXCEPT ![r] = FailIo(r, "DatabaseError")]
  /\ UNCHANGED <<blobs, dirs, nextId, deleted204, started, now>>

\* mutant: the lookup is by id alone
GetFileAnyOwner(id, user_id) == {f \in files : f.id = id}

\* FileRepository::get_file: SELECT * FROM files WHERE id = ? AND user_id = ?
GetFile(id, user_id) == {f \in files : f.id = id /\ f.user_id = user_id}

\* file_repo.get_file(&id, &claims.user_id).await?.ok_or(NotFound)?
Lookup(r) ==
  /\ req[r].op \in {"download", "delete"} /\ req[r].pc = "get"
  /\ \E res \in IoResults :
       IF res = "err"
       THEN req' = [req EXCEPT ![r] = FailIo(r, "DatabaseError")]
       ELSE LET found == GetFile(req[r].target, req[r].user) IN
            IF found = {}
            THEN req' = [req EXCEPT ![r] = Fail(r, "NotFound")]
            ELSE req' = [req EXCEPT ![r].file = CHOOSE f \in found : TRUE,
                           ![r].pc = IF req[r].op = "download"
                                     THEN "open" ELSE "remove"]
  /\ UNCHANGED <<files, blobs, dirs, nextId, deleted204, started, now>>

\* tokio::fs::File::open(&full_path) and the 200 response
DownloadOpen(r) ==
  /\ req[r].op = "download" /\ req[r].pc = "open"
  /\ \E res \in IoResults :
       IF res = "ok" /\ req[r].file.storage_path \in DOMAIN blobs
       THEN req' = [req EXCEPT ![r] = Finish(req[r], 200)]
       ELSE req' = [req EXCEPT ![r] = FailIo(r, "StorageError")]
  /\ UNCHANGED <<files, blobs, dirs, nextId, deleted204, started, now>>

\* tokio::fs::remove_file(&full_path) of delete_file
DeleteRemove(r) ==
  /\ req[r].op = "delete" /\ req[r].pc = "remove"
  /\ \E res \in IoResults :
       IF res = "ok" /\ req[r].file.storage_path \in DOMAIN blobs
       THEN /\ blobs' = WithoutBlob(req[r].file.storage_path)
            /\ req' = [req EXCEPT ![r].pc = "dbdelete"]
       ELSE /\ UNCHANGED blobs
            /\ req' = [req EXCEPT ![r] = FailIo(r, "StorageError")]
  /\ UNCHANGED <<files, dirs, nextId, deleted204, started, now>>

\* mutant: the DELETE removes nothing
DeleteRowsNone(id, user_id) == files

\* FileRepository::delete_file: DELETE FROM files WHERE id = ? AND user_id = ?
DeleteRows(id, user_id) == files \ GetFile(id, user_id)

\* file_repo.delete_file(&id, &claims.user_id).await? and the 204 response
DeleteRow(r) ==
  /\ req[r].op = "delete" /\ req[r].pc = "dbdelete"
  /\ \E res \in IoResults :
       IF res = "ok"
       THEN /\ files' = DeleteRows(req[r].target, req[r].user)
            /\ req' = [req EXCEPT ![r] = Finish(req[r], 204)]
            /\ deleted204' = deleted204 \cup {req[r].target}
       ELSE /\ UNCHANGED <<files, deleted204>>
            /\ req' = [req EXCEPT ![r] = FailIo(r, "DatabaseError")]
  /\ UNCHANGED <<blobs, dirs, nextId, started, now>>

(***************************************************************************)
(* stats.rs                                                                *)
(***************************************************************************)
\* what the operating system reports when its metrics are read: the
\* readings change with time, so a reading is named by the time it is taken
OsReading == now
\* the steps of the clock, in milliseconds
Deltas == {200, 300, 499}

\* cache_duration: Duration::from_millis(500)
CacheDuration == 500
\* Instant::now() - Duration::from_secs(10), in milliseconds
ForceInitial == 10 * 1000

\* StatsCache::new
NewStatsCache == [sys |-> OsReading, last_refresh |-> now - ForceInitial]

\* mutant: the cache refreshes only after more than cache_duration
RefreshIfNeededLate(c) ==
  IF now - c.last_refresh > CacheDuration
  THEN [c EXCEPT !.sys = OsReading, !.last_refresh = now]
  ELSE c

\* StatsCache::refresh_if_needed
RefreshIfNeeded(c) ==
  IF now - c.last_refresh >= CacheDuration
  THEN [c EXCEPT !.sys = OsReading, !.last_refresh = now]
  ELSE c

RECURSIVE SumSizes(_)
SumSizes(rows) ==
  IF rows = {} THEN 0
  ELSE LET f == CHOOSE x \in rows : TRUE
       IN f.size_bytes + SumSizes(rows \ {f})

\* SELECT COUNT(*), COALESCE(SUM(size_bytes), 0) FROM files WHERE user_id = ?
FileStats(user_id) ==
  LET rows == {f \in files : f.user_id = user_id}
  IN <<Cardinality(rows), SumSizes(rows)>>

\* a stats request arrives with verified claims of user u
StartStats(r) ==
  /\ req[r].pc \in {"idle", "done"}
  /\ started < MaxStarts
  /\ started' = started + 1
  /\ \E u \in Users :
       req' = [req EXCEPT ![r] = [Idle EXCEPT !.op = "stats", !.user = u,
                                   !.pc = "lock"]]
  /\ UNCHANGED <<files, blobs, dirs, nextId, deleted204, now, svars>>

\* state.stats_cache.lock().unwrap()
StatsLock(r) ==
  /\ req[r].op = "stats" /\ req[r].pc = "lock"
  /\ lock = 0
  /\ lock' = r
  /\ req' = [req EXCEPT ![r].pc = "refresh"]
  /\ UNCHANGED <<files, blobs, dirs, nextId, deleted204, started, now,
                 cache>>

\* cache.refresh_if_needed(), the reads of sys, and the fresh lists of
\* disks and networks
StatsRefresh(r) ==
  /\ req[r].op = "stats" /\ req[r].pc = "refresh"
  /\ cache' = RefreshIfNeeded(cache)
  /\ req' = [req EXCEPT ![r].pc = "unlock",
               ![r].st = [@ EXCEPT !.cpu_usage = cache'.sys,
                                   !.disk_used = OsReading,
                                   !.called_at = now,
                                   !.before = cache,
                                   !.seen = cache']]
  /\ UNCHANGED <<files, blobs, dirs, nextId, deleted204, started, now,
                 lock>>

\* mutant: the guard is still held when the request goes on to its query
StatsUnlockHeld(r) ==
  /\ req[r].op = "stats" /\ req[r].pc = "unlock"
  /\ lock' = lock
  /\ req' = [req EXCEPT ![r].pc = "query"]
  /\ UNCHANGED <<files, blobs, dirs, nextId, deleted204, started, now,
                 cache>>

\* drop(cache)
StatsUnlock(r) ==
  /\ req[r].op = "stats" /\ req[r].pc = "unlock"
  /\ lock' = 0
  /\ req' = [req EXCEPT ![r].pc = "query"]
  /\ UNCHANGED <<files, blobs, dirs, nextId, deleted204, started, now,
                 cache>>

\* the aggregate query with unwrap_or((0, 0)), and the 200 response
StatsQuery(r) ==
  /\ req[r].op = "stats" /\ req[r].pc = "query"
  /\ \E res \in IoResults :
       LET file_stats == IF res = "ok" THEN FileStats(req[r].user)
                         ELSE <<0, 0>>
       IN req' = [req EXCEPT ![r].pc = "done", ![r].resp = 200,
                    ![r].ioerr = (res = "err"),
                    ![r].st = [@ EXCEPT !.total_files = file_stats[1],
                                        !.total_file_size = file_stats[2],
                                        !.committed = FileStats(req[r].user)]]
  /\ UNCHANGED <<files, blobs, dirs, nextId, deleted204, started, now, svars>>

\* time passes
Tick ==
  /\ \E d \in Deltas : now + d <= MaxTime /\ now' = now + d
  /\ UNCHANGED <<files, blobs, dirs, nextId, req, deleted204, started, svars>>

\* no list request, no paging client, no users, no create_user call
NoPg == [pc |-> "idle"]
NoLs == [pc |-> "idle"]
NoCu == [pc |-> "idle"]
\* no signup or login, no token, no call of Keys::new
NoSu == [pc |-> "idle"]
NoTk == [pc |-> "idle"]
NoKs == [pc |-> "idle"]
AuthIdle ==
  /\ su = NoSu
  /\ tk = NoTk
  /\ ks = NoKs
OthersIdle ==
  /\ pg = NoPg
  /\ ls = NoLs
  /\ users = {}
  /\ cu = NoCu
  /\ AuthIdle

Init ==
  /\ files = {}
  /\ blobs = <<>>
  /\ dirs = {}
  /\ nextId = 1
  /\ req = [r \in Reqs |-> Idle]
  /\ deleted204 = {}
  /\ started = 0
  /\ now = 0
  /\ cache = NewStatsCache
  /\ lock = 0
  /\ OthersIdle

FileNext ==
  \E r \in Reqs :
    \/ Start(r)
    \/ UploadNextField(r)
    \/ UploadCreateDir(r)
    \/ UploadCreate(r)
    \/ UploadChunk(r)
    \/ UploadCleanup(r)
    \/ UploadWrite(r)
    \/ UploadFlush(r)
    \/ UploadInsert(r)
    \/ Lookup(r)
    \/ DownloadOpen(r)
    \/ DeleteRemove(r)
    \/ DeleteRow(r)

Next == FileNext /\ UNCHANGED <<svars, ovars, avars>>

Spec == Init /\ [][Next]_vars

\* the rows a table may hold for stats: one per id, each with its blob
StatRow(i, u) ==
  [id |-> i, user_id |-> u, original_name |-> <<"a">>,
   size_bytes |-> IF i = 1 THEN 1 ELSE MAX_FILE_SIZE,
   storage_path |-> Path(u, i), created_at |-> 0]
StatTables ==
  {t \in SUBSET {StatRow(i, u) : i \in Ids, u \in Users} :
     \A f, g \in t : f.id = g.id => f = g}

\* the service after some uploads: every id is used, each row has its blob
StatsInit ==
  /\ files \in StatTables
  /\ blobs = [p \in {f.storage_path : f \in files} |->
               [written |-> (CHOOSE f \in files : f.storage_path = p).size_bytes,
                flushed |-> TRUE]]
  /\ dirs = {f.user_id : f \in files}
  /\ nextId = MaxIds + 1
  /\ req = [r \in Reqs |-> Idle]
  /\ deleted204 = {}
  /\ started = 0
  /\ now = 0
  /\ cache = NewStatsCache
  /\ lock = 0
  /\ OthersIdle

StatsNext ==
  /\ \/ \E r \in Reqs :
          \/ StartStats(r)
          \/ StatsLock(r)
          \/ StatsRefresh(r)
          \/ StatsUnlock(r)
          \/ StatsQuery(r)
     \/ Tick
  /\ UNCHANGED <<ovars, avars>>

SpecStats == StatsInit /\ [][StatsNext]_vars

(***************************************************************************)
(* The upload pipeline, download and delete: properties.                   *)
(***************************************************************************)
Uploads == {r \in Reqs : req[r].op = "upload"}
\* the rows with an id that request r generated (gen is history)
RowsOf(r) == {f \in files : f.id \in req[r].gen}

C2_SizeIsBytesWritten ==
  \A f \in files :
    f.storage_path \in DOMAIN blobs =>
      blobs[f.storage_path].written = f.size_bytes

\* C2 witness: a recorded upload whose metadata declared another size than
\* the bytes written
C2_Witness ==
  \E r \in Uploads :
    /\ req[r].pc = "done" /\ req[r].resp = 201
    /\ req[r].metadata.size_bytes # req[r].actual_size
    /\ \E f \in RowsOf(r) :
         /\ f.size_bytes = req[r].actual_size
         /\ f.size_bytes > 1
         /\ f.storage_path \in DOMAIN blobs
         /\ blobs[f.storage_path].written = f.size_bytes

\* C3: a File row is inserted only when the blob at its storage_path is
\* written and flushed, and a request that has not answered 201 (in
\* progress, or failed at any step) has no File row
C3_RowOnlyAfterFlush ==
  [][ /\ \A f \in files' \ files :
           /\ f.storage_path \in DOMAIN blobs
           /\ blobs[f.storage_path].flushed
           /\ blobs[f.storage_path].written = f.size_bytes
      /\ \A r \in Reqs :
           (req'[r].op = "upload" /\ req'[r].resp # 201) =>
             {f \in files' : f.id \in req'[r].gen} = {}
    ]_vars

\* C3 witness: a request that failed at a disk call after writing its blob:
\* the blob is there and no row is
C3_Witness ==
  \E r \in Uploads :
    /\ req[r].pc = "done" /\ req[r].resp = 500 /\ req[r].ioerr
    /\ RowsOf(r) = {}
    /\ \E p \in DOMAIN blobs : p[1] = req[r].user /\ blobs[p].written > 0
    /\ \E q \in Uploads : req[q].resp = 201 /\ RowsOf(q) # {}

\* C4: once a delete request has answered 204 for an id, no row and no blob
\* of that id exists, and a download request received after that answers
\* 404 (500 when its own lookup query fails)
C4_DeletedStaysGone ==
  /\ \A id \in deleted204 :
       /\ \A f \in files : f.id # id
       /\ \A p \in DOMAIN blobs : p[2] # id
  /\ \A r \in Reqs :
       (req[r].op = "download" /\ req[r].target \in req[r].after) =>
         /\ req[r].pc \in {"get", "done"}
         /\ req[r].pc = "done" =>
              \/ req[r].resp = 404
              \/ req[r].resp = 500 /\ req[r].ioerr

\* C4 witness: a download of a deleted id has answered 404
C4_Witness ==
  \E r \in Reqs :
    /\ req[r].op = "download" /\ req[r].pc = "done"
    /\ req[r].target \in req[r].after
    /\ req[r].resp = 404 /\ ~req[r].ioerr

\* the rows of another owner that request r names
ForeignRows(r) ==
  {f \in files : f.id = req[r].target /\ f.user_id # req[r].user}

StatsCalls ==
  {r \in Reqs : req[r].op = "stats" /\ req[r].pc \in {"unlock", "query", "done"}}

\* what C8 says of each single call: less than 500 ms after the last refresh
\* the cache is left as it was; from 500 ms on the metrics are read again and
\* last_refresh is the time of the call; the first call after construction
\* refreshes
ThrottledCalls ==
  \A r \in StatsCalls :
    LET s == req[r].st IN
    /\ IF s.called_at - s.before.last_refresh < 500
       THEN s.seen = s.before
       ELSE s.seen = [sys |-> s.called_at, last_refresh |-> s.called_at]
    /\ s.before.last_refresh < 0 => s.seen.last_refresh = s.called_at

\* C8 (as amended): ThrottledCalls, and a call made less than 500 ms after
\* the refresh an earlier call saw sees that same refresh
C8_Throttle ==
  /\ ThrottledCalls
  /\ \A r, q \in StatsCalls :
       (/\ req[q].st.called_at >= req[r].st.called_at
        /\ req[q].st.called_at - req[r].st.seen.last_refresh < 500) =>
         req[q].st.seen = req[r].st.seen

\* C8 as stated: ThrottledCalls, and any two calls within 500 ms of each
\* other see the same refresh timestamp
C8_AsStated ==
  /\ ThrottledCalls
  /\ \A r, q \in StatsCalls :
       (/\ req[q].st.called_at - req[r].st.called_at < 500
        /\ req[r].st.called_at - req[q].st.called_at < 500) =>
         req[q].st.seen.last_refresh = req[r].st.seen.last_refresh

\* C8 witness: a call 200 ms after a refresh has left the cache as it was,
\* and a call exactly 500 ms after a refresh has refreshed
C8_Witness ==
  /\ \E r \in StatsCalls :
       /\ req[r].st.called_at - req[r].st.before.last_refresh = 200
       /\ req[r].st.seen = req[r].st.before
  /\ \E q \in StatsCalls :
       /\ req[q].st.called_at - req[q].st.before.last_refresh = 500
       /\ req[q].st.seen.last_refresh = req[q].st.called_at
       /\ req[q].st.seen # req[q].st.before

\* C9: every stats response reports the number and the summed size of the
\* caller's committed rows
C9_AggregateExact ==
  \A r \in Reqs :
    (req[r].op = "stats" /\ req[r].pc = "done" /\ req[r].resp = 200) =>
      /\ req[r].st.total_files = req[r].st.committed[1]
      /\ req[r].st.total_file_size = req[r].st.committed[2]

\* C19: every blob that a successful upload request (201) created is the
\* blob of a row: the request left no blob on disk that no row names
C19_OneBlobPerUpload ==
  \A r \in Uploads :
    (req[r].pc = "done" /\ req[r].resp = 201) =>
      \A id \in req[r].gen :
        Path(req[r].user, id) \in DOMAIN blobs =>
          \E f \in files : f.storage_path = Path(req[r].user, id)

\* C13: a request during which a database or disk call failed answers 500
C13_FailuresReported ==
  \A r \in Reqs :
    (req[r].pc = "done" /\ req[r].ioerr) => req[r].resp = 500

\* the stats requests inside the block that holds the guard of the cache
InBlock == {r \in Reqs : req[r].op = "stats" /\ req[r].pc \in {"refresh", "unlock"}}

\* C14: at most one stats request at a time is inside the refresh check,
\* refresh and read of the snapshot, it is the one that holds the lock, and
\* no request holds the lock while it runs its database query or after
C14_LockScope ==
  /\ Cardinality(InBlock) <= 1
  /\ \A r \in InBlock : lock = r
  /\ \A r \in Reqs : req[r].pc \in {"lock", "query", "done"} => lock # r

\* one request is at its query, the lock released, while another request
\* holds the lock inside the block
C14_Witness ==
  \E r, q \in Reqs :
    req[r].op = "stats" /\ req[r].pc = "query" /\ q \in InBlock /\ lock = q

\* C15: a stats call made less than 500 ms after the last refresh reads no
\* metric from the operating system: what it reports of the disks was read
\* no later than that refresh
C15_EnumerationThrottled ==
  \A r \in StatsCalls :
    LET s == req[r].st IN
    s.called_at - s.before.last_refresh < CacheDuration =>
      s.disk_used <= s.before.last_refresh

(***************************************************************************)
(* filemanager.rs: the page arithmetic of get_files_handler and list_files *)
(* on i64 values.  An i64 is its 64 bits in four limbs of 16 bits, least   *)
(* significant limb first (two's complement).                              *)
(***************************************************************************)
Limb == 65536
SignLimb == 32768

I64FromNat(n) == <<n, 0, 0, 0>>
I64_MAX == <<Limb - 1, Limb - 1, Limb - 1, SignLimb - 1>>
I64_MIN == <<0, 0, 0, SignLimb>>
I64MinusOne == <<Limb - 1, Limb - 1, Limb - 1, Limb - 1>>

IsNeg(x) == x[4] >= SignLimb
\* x < y on the bit patterns read as unsigned
ULess(x, y) ==
  \E i \in 1..4 : x[i] < y[i] /\ \A j \in (i + 1)..4 : x[j] = y[j]
\* x < y on i64
I64Less(x, y) == IF IsNeg(x) # IsNeg(y) THEN IsNeg(x) ELSE ULess(x, y)
\* i64::max and i64::min
I64Max(x, y) == IF I64Less(x, y) THEN y ELSE x
I64Min(x, y) == IF I64Less(y, x) THEN y ELSE x

\* x - 1 on the 64 bits
SubOne(x) ==
  LET b1 == IF x[1] = 0 THEN 1 ELSE 0
      b2 == IF b1 = 1 /\ x[2] = 0 THEN 1 ELSE 0
      b3 == IF b2 = 1 /\ x[3] = 0 THEN 1 ELSE 0
  IN <<(x[1] - 1) % Limb, (x[2] - b1) % Limb, (x[3] - b2) % Limb,
       (x[4] - b3) % Limb>>

\* x * k for x >= 0 and a k below one limb: the low 64 bits and the bits
\* carried out of them
MulSmall(x, k) ==
  LET m1 == x[1] * k
      m2 == x[2] * k + m1 \div Limb
      m3 == x[3] * k + m2 \div Limb
      m4 == x[4] * k + m3 \div Limb
  IN [low |-> <<m1 % Limb, m2 % Limb, m3 % Limb, m4 % Limb>>,
      carry |-> m4 \div Limb]

\* whether (page - 1) * page_size overflows i64 (page >= 1, 1 <= size <= 100)
OffsetOverflows(page, page_size) ==
  LET m == MulSmall(SubOne(page), page_size[1])
  IN m.carry > 0 \/ IsNeg(m.low)

\* the query values a client may send
PageInputs ==
  {I64FromNat(0), I64FromNat(1), I64FromNat(2), I64FromNat(3),
   I64MinusOne, I64_MIN, I64_MAX, <<0, 0, 1, 0>>, <<0, 0, 0, 1>>,
   <<0, 0, 0, 300>>, SubOne(I64_MAX)}
PageSizeInputs ==
  {I64FromNat(0), I64FromNat(1), I64FromNat(2), I64FromNat(20),
   I64FromNat(100), I64FromNat(101), I64MinusOne, I64_MIN, I64_MAX}
Absent == [some |-> FALSE, v |-> I64FromNat(0)]
Present(x) == [some |-> TRUE, v |-> x]

\* Option::unwrap_or
UnwrapOr(o, d) == IF o.some THEN o.v ELSE d

\* query.page.unwrap_or(1).max(1)
ClampPage(o) == I64Max(UnwrapOr(o, I64FromNat(1)), I64FromNat(1))
\* query.page_size.unwrap_or(20).max(1).min(100)
ClampPageSize(o) ==
  I64Min(I64Max(UnwrapOr(o, I64FromNat(20)), I64FromNat(1)), I64FromNat(100))

\* a list request arrives: FileQuery.page and FileQuery.page_size
PageInit ==
  /\ pg \in [pc : {"query"},
             in_page : {Absent} \cup {Present(x) : x \in PageInputs},
             in_size : {Absent} \cup {Present(x) : x \in PageSizeInputs},
             page : {I64FromNat(0)}, page_size : {I64FromNat(0)},
             offset : {I64FromNat(0)}]
  /\ files = {}
  /\ blobs = <<>>
  /\ dirs = {}
  /\ nextId = 1
  /\ req = [r \in Reqs |-> Idle]
  /\ deleted204 = {}
  /\ started = 0
  /\ now = 0
  /\ cache = NewStatsCache
  /\ lock = 0
  /\ ls = NoLs
  /\ users = {}
  /\ cu = NoCu
  /\ AuthIdle

\* get_files_handler: page and page_size
PageClamp ==
  /\ pg.pc = "query"
  /\ pg' = [pg EXCEPT !.pc = "clamped",
                      !.page = ClampPage(pg.in_page),
                      !.page_size = ClampPageSize(pg.in_size)]
  /\ UNCHANGED <<fvars, svars, ls, users, cu, avars>>

\* list_files: let offset = (page - 1) * page_size.  On overflow a build
\* with overflow checks panics and a build without them wraps.
PageOffset ==
  /\ pg.pc = "clamped"
  /\ LET m == MulSmall(SubOne(pg.page), pg.page_size[1]) IN
     \/ /\ ~OffsetOverflows(pg.page, pg.page_size)
        /\ pg' = [pg EXCEPT !.pc = "done", !.offset = m.low]
     \/ /\ OffsetOverflows(pg.page, pg.page_size)
        /\ \/ pg' = [pg EXCEPT !.pc = "panicked"]
           \/ pg' = [pg EXCEPT !.pc = "done", !.offset = m.low]
  /\ UNCHANGED <<fvars, svars, ls, users, cu, avars>>

PageNext == PageClamp \/ PageOffset

SpecPage == PageInit /\ [][PageNext]_vars

\* C7: for every page and page_size the handler does not fail, uses
\* page' = max(page, 1) (1 when absent) and size' = page_size clamped into
\* [1, 100] (20 when absent), and the offset is (page' - 1) * size' as the
\* integers give it: not negative, and nothing carried out of the 64 bits
C7_PageArithmetic ==
  /\ pg.pc # "panicked"
  /\ pg.pc \in {"clamped", "done"} =>
       /\ pg.page = IF ~pg.in_page.some THEN I64FromNat(1)
                    ELSE IF IsNeg(pg.in_page.v) \/ pg.in_page.v = I64FromNat(0)
                         THEN I64FromNat(1) ELSE pg.in_page.v
       /\ pg.page_size =
            IF ~pg.in_size.some THEN I64FromNat(20)
            ELSE IF IsNeg(pg.in_size.v) \/ pg.in_size.v = I64FromNat(0)
                 THEN I64FromNat(1)
                 ELSE IF pg.in_size.v[1] > 100 \/ pg.in_size.v[2] > 0
                         \/ pg.in_size.v[3] > 0 \/ pg.in_size.v[4] > 0
                      THEN I64FromNat(100) ELSE pg.in_size.v
  /\ pg.pc = "done" =>
       LET m == MulSmall(SubOne(pg.page), pg.page_size[1]) IN
       /\ ~IsNeg(pg.offset)
       /\ m.carry = 0
       /\ pg.offset = m.low

(***************************************************************************)
(* filemanager.rs: count_files, list_files and get_files_handler, for a    *)
(* client that pages through one listing with no writes in between.        *)
(***************************************************************************)
MaxRows == 3     \* rows of table files in a listing

\* the names of files and the search strings, as sequences of characters
Names == {<<"a">>, <<"a", "b">>}
Searches == {<<"a">>, <<"b">>}
CharRank(c) == IF c = "a" THEN 1 ELSE 2

\* original_name LIKE '%q%'
Like(name, q) ==
  \E i \in 0..(Len(name) - Len(q)) : SubSeq(name, i + 1, i + Len(q)) = q

\* s < t for strings
StrLess(s, t) ==
  \E i \in 1..(Len(s) + 1) :
    /\ i <= Len(t)
    /\ \A j \in 1..(i - 1) : s[j] = t[j]
    /\ i = Len(s) + 1 \/ CharRank(s[i]) < CharRank(t[i])

\* WHERE user_id = ? [AND original_name LIKE ?]
Matching(user_id, q) ==
  {f \in files : f.user_id = user_id /\ (q.some => Like(f.original_name, q.v))}

\* count_files: SELECT COUNT(*)
CountFiles(user_id, q) == Cardinality(Matching(user_id, q))

\* sort_field and sort_dir of list_files: f comes strictly before g
SortsBefore(f, g, sort, direction) ==
  LET lt(a, b) == CASE sort = "size" -> a.size_bytes < b.size_bytes
                    [] sort = "date" -> a.created_at < b.created_at
                    [] OTHER -> StrLess(a.original_name, b.original_name)
  IN IF direction = "desc" THEN lt(g, f) ELSE lt(f, g)

\* the orders in which ORDER BY may return the rows: any order that the
\* sort key allows (rows that tie on the key come in an order the query
\* does not fix)
Orders(rows, sort, direction) ==
  {o \in [1..Cardinality(rows) -> rows] :
     /\ \A i, j \in DOMAIN o : i # j => o[i] # o[j]
     /\ \A i, j \in DOMAIN o :
          i < j => ~SortsBefore(o[j], o[i], sort, direction)}

Min2(a, b) == IF a < b THEN a ELSE b

\* list_files: the pages the query may return
ListFiles(user_id, q, sort, direction, page, page_size) ==
  LET offset == (page - 1) * page_size
  IN {SubSeq(o, offset + 1, Min2(offset + page_size, Len(o))) :
        o \in Orders(Matching(user_id, q), sort, direction)}

\* (total as f64 / page_size as f64).ceil() as i64
TotalPages(total, page_size) == (total + page_size - 1) \div page_size

ListRow(i, u, name, n) ==
  [id |-> i, user_id |-> u, original_name |-> name, size_bytes |-> n,
   storage_path |-> Path(u, i), created_at |-> i]
ListTables ==
  {t \in SUBSET {ListRow(i, u, name, n) : i \in 1..MaxRows, u \in Users,
                                          name \in Names, n \in {1, 2}} :
     /\ \A f, g \in t : f.id = g.id => f = g
     /\ \A i \in 1..MaxRows : \E f \in t : f.id = i}

\* the service after MaxRows uploads, and a client about to list
ListInit ==
  /\ files \in ListTables
  /\ blobs = [p \in {f.storage_path : f \in files} |->
               [written |-> (CHOOSE f \in files : f.storage_path = p).size_bytes,
                flushed |-> TRUE]]
  /\ dirs = {f.user_id : f \in files}
  /\ nextId = MaxRows + 1
  /\ req = [r \in Reqs |-> Idle]
  /\ deleted204 = {}
  /\ started = 0
  /\ now = 0
  /\ cache = NewStatsCache
  /\ lock = 0
  /\ pg = NoPg
  /\ users = {}
  /\ cu = NoCu
  /\ AuthIdle
  /\ ls \in [pc : {"paging"}, user : {"u1"},
             q : {[some |-> FALSE, v |-> <<>>]}
                   \cup {[some |-> TRUE, v |-> x] : x \in Searches},
             sort : {"name", "size", "date"},
             direction : {"asc", "desc"},
             page_size : {1, 2},
             total : {0}, total_pages : {0}, pages : {<<>>}]

\* get_files_handler for the next page: count_files, list_files and the
\* response (total, total_pages, files)
ListPage ==
  /\ ls.pc = "paging"
  /\ LET page == Len(ls.pages) + 1
         total == CountFiles(ls.user, ls.q)
     IN /\ page = 1 \/ page <= ls.total_pages
        /\ \E fs \in ListFiles(ls.user, ls.q, ls.sort, ls.direction, page,
                               ls.page_size) :
             ls' = [ls EXCEPT !.total = total,
                      !.total_pages = TotalPages(total, ls.page_size),
                      !.pages = Append(@, [i \in DOMAIN fs |-> fs[i].id])]
  /\ UNCHANGED <<fvars, svars, pg, users, cu, avars>>

\* the client has read pages 1..total_pages
ListDone ==
  /\ ls.pc = "paging"
  /\ Len(ls.pages) >= 1 /\ Len(ls.pages) >= ls.total_pages
  /\ ls' = [ls EXCEPT !.pc = "done"]
  /\ UNCHANGED <<fvars, svars, pg, users, cu, avars>>

ListNext == ListPage \/ ListDone

SpecList == ListInit /\ [][ListNext]_vars

\* the ids on the pages read so far
RECURSIVE PageIds(_)
PageIds(pages) ==
  IF pages = <<>> THEN <<>> ELSE Head(pages) \o PageIds(Tail(pages))

\* C6: every page has at most total entries, and pages 1..total_pages hold
\* exactly total distinct ids, none of them twice
C6_PagesPartition ==
  /\ \A i \in DOMAIN ls.pages : Len(ls.pages[i]) <= ls.total
  /\ ls.pc = "done" =>
       LET ids == PageIds(SubSeq(ls.pages, 1, ls.total_pages)) IN
       /\ Len(ids) = ls.total
       /\ \A i, j \in DOMAIN ids : i # j => ids[i] # ids[j]
       /\ {ids[i] : i \in DOMAIN ids} =
            {f.id : f \in Matching(ls.user, ls.q)}

(***************************************************************************)
(* user.rs: UserRepository::create_user.  A string is given by how many    *)
(* one-byte and how many two-byte characters it holds, which fixes both    *)
(* its length in bytes and its length in characters.                       *)
(***************************************************************************)
MaxCalls == 2    \* calls of create_user

Str(a, w) == [ascii |-> a, wide |-> w]
\* str::len(): the length of the UTF-8 encoding in bytes
ByteLen(s) == s.ascii + 2 * s.wide
\* the number of characters of the string
CharCount(s) == s.ascii + s.wide

UsernameInputs == {Str(a, w) : a \in {0, 2, 3, 50, 51}, w \in {0, 1, 2}}
PasswordInputs == {Str(a, w) : a \in {0, 5, 6}, w \in {0, 1, 3}}

UserInit ==
  /\ files = {}
  /\ blobs = <<>>
  /\ dirs = {}
  /\ nextId = 1
  /\ req = [r \in Reqs |-> Idle]
  /\ deleted204 = {}
  /\ started = 0
  /\ now = 0
  /\ cache = NewStatsCache
  /\ lock = 0
  /\ pg = NoPg
  /\ ls = NoLs
  /\ users = {}
  /\ cu = [pc |-> "idle", calls |-> 0]
  /\ AuthIdle

\* a caller invokes create_user(username, password)
CreateUserCall ==
  /\ cu.pc \in {"idle", "done"}
  /\ cu.calls < MaxCalls
  /\ \E u \in UsernameInputs, p \in PasswordInputs :
       cu' = [pc |-> "validate", calls |-> cu.calls + 1, username |-> u,
              password |-> p, result |-> "none", hashed |-> FALSE,
              queries |-> 0, before |-> users]
  /\ UNCHANGED <<fvars, svars, pg, ls, users, avars>>

ValidUsernameChars(u) == ~(CharCount(u) < 3 \/ CharCount(u) > 50)
ValidUsername(u) == ~(ByteLen(u) < 3 \/ ByteLen(u) > 50)
ValidPasswordChars(p) == ~(CharCount(p) < 6)
ValidPassword(p) == ~(ByteLen(p) < 6)

\* the two length checks
CreateUserValidate ==
  /\ cu.pc = "validate"
  /\ cu' = IF ~ValidUsername(cu.username)
             THEN [cu EXCEPT !.pc = "done", !.result = "InvalidUsername"]
           ELSE IF ~ValidPassword(cu.password)
             THEN [cu EXCEPT !.pc = "done", !.result = "InvalidPassword"]
           ELSE [cu EXCEPT !.pc = "hash"]
  /\ UNCHANGED <<fvars, svars, pg, ls, users, avars>>

\* hash_password(password)?
CreateUserHash ==
  /\ cu.pc = "hash"
  /\ \E io \in IoResults :
       cu' = IF io = "ok"
               THEN [cu EXCEPT !.pc = "insert", !.hashed = TRUE]
             ELSE [cu EXCEPT !.pc = "done", !.hashed = TRUE,
                             !.result = "PasswordHashError"]
  /\ UNCHANGED <<fvars, svars, pg, ls, users, avars>>

\* table users(id, username UNIQUE, password_hash, created_at): the INSERT
\* of a username that a row already holds violates the constraint
UniqueViolation(username) == \E row \in users : row.username = username

\* what the INSERT answers: an error of the connection, the violation of
\* the constraint, or success
InsertOutcome(io, username) ==
  IF io = "err" THEN "err"
  ELSE IF UniqueViolation(username) THEN "unique" ELSE "ok"

\* mutant: the violation of the constraint is passed on as a database error
MatchInsertGeneric(outcome) ==
  CASE outcome = "ok" -> "Ok"
    [] outcome = "unique" -> "DatabaseError"
    [] OTHER -> "DatabaseError"

\* match result { Ok(_) => .., Err(Database(e)) if e.message().contains(
\* "UNIQUE") => Err(UsernameExists), Err(e) => Err(DatabaseError(e)) }
MatchInsert(outcome) ==
  CASE outcome = "ok" -> "Ok"
    [] outcome = "unique" -> "UsernameExists"
    [] OTHER -> "DatabaseError"

\* INSERT INTO users, and the match on its result
CreateUserInsert ==
  /\ cu.pc = "insert"
  /\ \E io \in IoResults :
       LET outcome == InsertOutcome(io, cu.username) IN
       /\ cu' = [cu EXCEPT !.pc = "done", !.queries = @ + 1,
                           !.result = MatchInsert(outcome)]
       /\ users' = IF outcome = "ok"
                   THEN users \cup {[username |-> cu.username]}
                   ELSE users
  /\ UNCHANGED <<fvars, svars, pg, ls, avars>>

UserNext ==
  CreateUserCall \/ CreateUserValidate \/ CreateUserHash \/ CreateUserInsert

SpecUser == UserInit /\ [][UserNext]_vars

\* a call that has returned after doing neither hashing nor database access
Untouched == ~cu.hashed /\ cu.queries = 0 /\ users = cu.before

\* C10: a username of fewer than 3 or more than 50 characters gives
\* InvalidUsername, a password of fewer than 6 characters (with a username
\* that passes) gives InvalidPassword, and in both cases nothing was hashed,
\* no query was run and table users is as it was
C10_ValidatesBeforeWork ==
  cu.pc = "done" =>
    /\ ~ValidUsernameChars(cu.username) =>
         cu.result = "InvalidUsername" /\ Untouched
    /\ ValidUsernameChars(cu.username) /\ ~ValidPasswordChars(cu.password) =>
         cu.result = "InvalidPassword" /\ Untouched

(***************************************************************************)
(* auth.rs: signup, as concurrent tasks over table users.                  *)
(***************************************************************************)
MaxSignups == 3  \* signup requests received in one behaviour

\* AuthError::into_response
AuthStatusOf(e) ==
  CASE e = "WrongCredentials" -> 401
    [] e = "MissingCredentials" -> 400
    [] e = "TokenCreation" -> 500
    [] e = "InvalidToken" -> 400
    [] e = "UsernameExists" -> 400
    [] e = "InvalidUsername" -> 400
    [] e = "InvalidPassword" -> 400
    [] e = "StorageError" -> 500
    [] e = "InternalError" -> 500

\* the map_err of signup over the errors of create_user
SignupError(e) ==
  CASE e = "UsernameExists" -> "UsernameExists"
    [] e = "InvalidUsername" -> "InvalidUsername"
    [] e = "InvalidPassword" -> "InvalidPassword"
    [] OTHER -> "InternalError"

SignupNames == {Str(2, 0), Str(3, 0), Str(4, 0)}
SignupPasswords == {Str(5, 0), Str(6, 0)}

NoSignup ==
  [pc |-> "idle", username |-> Str(0, 0), password |-> Str(0, 0),
   err |-> "", resp |-> 0, ioerr |-> FALSE, before |-> {}, user_id |-> 0]

\* signup returns Err(e)
SignupFail(q, e) == [q EXCEPT !.pc = "done", !.err = e, !.resp = AuthStatusOf(e)]

SignupInit ==
  /\ files = {}
  /\ blobs = <<>>
  /\ dirs = {}
  /\ nextId = 1
  /\ req = [r \in Reqs |-> Idle]
  /\ deleted204 = {}
  /\ started = 0
  /\ now = 0
  /\ cache = NewStatsCache
  /\ lock = 0
  /\ pg = NoPg
  /\ ls = NoLs
  /\ users = {}
  /\ cu = NoCu
  /\ su = [r \in Reqs |-> NoSignup]
  /\ tk = NoTk
  /\ ks = NoKs

\* POST /api/auth/signup arrives with a username and a password
SignupStart(r) ==
  /\ su[r].pc \in {"idle", "done"}
  /\ started < MaxSignups
  /\ started' = started + 1
  /\ \E u \in SignupNames, p \in SignupPasswords :
       su' = [su EXCEPT ![r] = [NoSignup EXCEPT !.pc = "validate",
                                  !.username = u, !.password = p,
                                  !.before = users]]
  /\ UNCHANGED <<nextId, dirs, users>>

\* create_user: the two length checks
SignupValidate(r) ==
  /\ su[r].pc = "validate"
  /\ su' = [su EXCEPT ![r] =
              IF ~ValidUsername(su[r].username)
                THEN SignupFail(su[r], SignupError("InvalidUsername"))
              ELSE IF ~ValidPassword(su[r].password)
                THEN SignupFail(su[r], SignupError("InvalidPassword"))
              ELSE [su[r] EXCEPT !.pc = "hash"]]
  /\ UNCHANGED <<nextId, dirs, users, started>>

\* create_user: hash_password(password)?
SignupHash(r) ==
  /\ su[r].pc = "hash"
  /\ \E io \in IoResults :
       su' = [su EXCEPT ![r] =
                IF io = "ok" THEN [su[r] EXCEPT !.pc = "insert"]
                ELSE [SignupFail(su[r], SignupError("PasswordHashError"))
                        EXCEPT !.ioerr = TRUE]]
  /\ UNCHANGED <<nextId, dirs, users, started>>

\* create_user: Uuid::new_v4, the INSERT and the match on its result
SignupInsert(r) ==
  /\ su[r].pc = "insert"
  /\ \E io \in IoResults :
       LET outcome == InsertOutcome(io, su[r].username)
           result == MatchInsert(outcome)
       IN /\ nextId' = nextId + 1
          /\ users' = IF outcome = "ok"
                      THEN users \cup {[id |-> nextId,
                                        username |-> su[r].username]}
                      ELSE users
          /\ su' = [su EXCEPT ![r] =
                      IF result = "Ok"
                        THEN [su[r] EXCEPT !.pc = "create_dir",
                                           !.user_id = nextId]
                      ELSE [SignupFail(su[r], SignupError(result))
                              EXCEPT !.ioerr = (outcome = "err")]]
  /\ UNCHANGED <<dirs, started>>

\* tokio::fs::create_dir_all(storage_root.join(&user.id))
SignupCreateDir(r) ==
  /\ su[r].pc = "create_dir"
  /\ \E io \in IoResults :
       IF io = "ok"
       THEN /\ dirs' = dirs \cup {su[r].user_id}
            /\ su' = [su EXCEPT ![r].pc = "token"]
       ELSE /\ UNCHANGED dirs
            /\ su' = [su EXCEPT ![r] = [SignupFail(su[r], "StorageError")
                                          EXCEPT !.ioerr = TRUE]]
  /\ UNCHANGED <<nextId, users, started>>

\* the claims, encode(&header, &claims, &KEYS.encoding) and the 201 response
SignupToken(r) ==
  /\ su[r].pc = "token"
  /\ \E io \in IoResults :
       su' = [su EXCEPT ![r] =
                IF io = "ok" THEN [su[r] EXCEPT !.pc = "done", !.resp = 201]
                ELSE [SignupFail(su[r], "TokenCreation")
                        EXCEPT !.ioerr = TRUE]]
  /\ UNCHANGED <<nextId, dirs, users, started>>

SignupNext ==
  /\ \E r \in Reqs :
       \/ SignupStart(r)
       \/ SignupValidate(r)
       \/ SignupHash(r)
       \/ SignupInsert(r)
       \/ SignupCreateDir(r)
       \/ SignupToken(r)
  /\ UNCHANGED <<files, blobs, req, deleted204, now, svars, pg, ls, cu, tk,
                 ks>>

SpecSignup == SignupInit /\ [][SignupNext]_vars

\* the signup requests that have answered
SignupsDone == {r \in Reqs : su[r].pc = "done"}
\* the username of request r was in table users when r arrived
WasPresent(r) == \E row \in su[r].before : row.username = su[r].username

\* C11 (as stated): a signup with a username that is already present fails
\* with UsernameExists (400) and leaves the rows as they were, and usernames
\* stay unique, with no condition on the password
C11_AsStated ==
  /\ \A a, b \in users : a.username = b.username => a = b
  /\ \A r \in SignupsDone :
       WasPresent(r) =>
         /\ su[r].before \subseteq users
         /\ su[r].user_id = 0
         /\ ~su[r].ioerr => su[r].err = "UsernameExists" /\ su[r].resp = 400

\* C11 (amended): a signup with a username that is already present and a
\* password that passes the length check fails with UsernameExists (400)
\* unless hashing or the INSERT itself failed; it creates no row and the
\* rows that were there stay as they were; usernames are unique in every
\* state, whatever the interleaving of signups
C11_UsernameExists ==
  /\ \A a, b \in users : a.username = b.username => a = b
  /\ \A r \in SignupsDone :
       WasPresent(r) =>
         /\ su[r].before \subseteq users
         /\ su[r].user_id = 0
         /\ ValidPassword(su[r].password) /\ ~su[r].ioerr =>
              su[r].err = "UsernameExists" /\ su[r].resp = 400

\* two signups of one username raced: neither saw a row when it arrived, one
\* created the row and the other was told UsernameExists
C11_Witness ==
  \E r, q \in SignupsDone :
    /\ r # q /\ su[r].username = su[q].username
    /\ su[r].before = {} /\ su[q].before = {}
    /\ su[r].user_id # 0
    /\ su[q].err = "UsernameExists" /\ su[q].resp = 400

\* C18: a signup that answered with an error created no row in table users
C18_AllOrNothing ==
  \A r \in SignupsDone :
    su[r].resp # 201 => \A row \in users : row.id # su[r].user_id

(***************************************************************************)
(* auth.rs: a token from its issue (signup, login) to its verification     *)
(* (Claims::from_request_parts).  The clock is in milliseconds; the exp    *)
(* claim and the verifier's clock are in whole seconds.                    *)
(***************************************************************************)
MaxTicks == 4    \* steps of the clock in the life of one token

\* the clock when the service starts
TokenEpoch == 1000 * 1000
\* chrono::Duration::hours(24), in milliseconds
TokenLifetime == 24 * 60 * 60 * 1000
\* Validation::new: the leeway the verifier grants on exp, in seconds
Leeway == 60
TokenDeltas == {500, 30 * 1000, 60 * 1000, TokenLifetime - 1000}

\* timestamp(): whole seconds
Timestamp(ms) == ms \div 1000

\* Claims { .., exp: (Utc::now() + Duration::hours(24)).timestamp() }
IssueExp == Timestamp(now + TokenLifetime)

\* decode with validate_exp: the token is expired when exp < now - leeway
Expired(exp) == exp < Timestamp(now) - Leeway

TokenInit ==
  /\ files = {}
  /\ blobs = <<>>
  /\ dirs = {}
  /\ nextId = 1
  /\ req = [r \in Reqs |-> Idle]
  /\ deleted204 = {}
  /\ started = 0
  /\ now = TokenEpoch
  /\ cache = NewStatsCache
  /\ lock = 0
  /\ pg = NoPg
  /\ ls = NoLs
  /\ users = {}
  /\ cu = NoCu
  /\ su = NoSu
  /\ tk = [pc |-> "idle", ticks |-> 0]
  /\ ks = NoKs

\* signup or login builds the claims and signs them
TokenIssue ==
  /\ tk.pc = "idle"
  /\ \E io \in IoResults :
       tk' = IF io = "ok"
               THEN [pc |-> "issued", ticks |-> tk.ticks, issued_at |-> now,
                     exp |-> IssueExp, verdict |-> "none", checked_at |-> 0]
             ELSE [pc |-> "TokenCreation", ticks |-> tk.ticks]
  /\ UNCHANGED now

\* time passes
TokenTick ==
  /\ tk.ticks < MaxTicks
  /\ \E d \in TokenDeltas : now' = now + d
  /\ tk' = [tk EXCEPT !.ticks = @ + 1]

\* a request carries the token: decode::<Claims>(token, &keys.decoding,
\* &validation), any error mapped to InvalidToken
TokenVerify ==
  /\ tk.pc = "issued"
  /\ tk' = [tk EXCEPT !.verdict = IF Expired(tk.exp) THEN "InvalidToken"
                                  ELSE "accepted",
                      !.checked_at = now]
  /\ UNCHANGED now

TokenNext ==
  /\ TokenIssue \/ TokenTick \/ TokenVerify
  /\ UNCHANGED <<files, blobs, dirs, nextId, req, deleted204, started, svars,
                 ovars, su, ks>>

SpecToken == TokenInit /\ [][TokenNext]_vars

\* C12: the token carries expiry = issue time + 24h; a request before that
\* expiry is accepted and a request after it is rejected with InvalidToken
C12_ExpiryEnforced ==
  tk.pc = "issued" =>
    /\ tk.exp = Timestamp(tk.issued_at + TokenLifetime)
    /\ tk.verdict # "none" =>
         /\ Timestamp(tk.checked_at) < tk.exp => tk.verdict = "accepted"
         /\ Timestamp(tk.checked_at) > tk.exp => tk.verdict = "InvalidToken"

(***************************************************************************)
(* filemanager.rs: delete_file, as concurrent tasks over files that exist. *)
(***************************************************************************)
\* the service after some uploads: each row has its blob
DeleteInit == StatsInit

\* DELETE /api/files/{id} arrives with verified claims of user u
StartDelete(r) ==
  /\ req[r].pc \in {"idle", "done"}
  /\ started < MaxStarts
  /\ started' = started + 1
  /\ \E u \in Users, id \in Ids :
       req' = [req EXCEPT ![r] = [Idle EXCEPT !.op = "delete", !.user = u,
                                   !.pc = "get", !.target = id]]
  /\ UNCHANGED <<files, blobs, dirs, nextId, deleted204, now>>

DeleteNext ==
  /\ \E r \in Reqs :
       \/ StartDelete(r)
       \/ Lookup(r)
       \/ DeleteRemove(r)
       \/ DeleteRow(r)
  /\ UNCHANGED <<svars, ovars, avars>>

SpecDelete == DeleteInit /\ [][DeleteNext]_vars

\* the delete requests that have answered
DeletesDone == {r \in Reqs : req[r].op = "delete" /\ req[r].pc = "done"}
\* a delete request for the same file as r is still running
DeleteRunning(r) ==
  \E q \in Reqs \ {r} :
    /\ req[q].op = "delete" /\ req[q].pc \in {"get", "remove", "dbdelete"}
    /\ req[q].user = req[r].user /\ req[q].target = req[r].target
HasRow(r) == GetFile(req[r].target, req[r].user) # {}
HasBlob(r) == Path(req[r].user, req[r].target) \in DOMAIN blobs

\* C16: when a delete request has answered (and no other delete of that file
\* is still running), the file's row and its blob both exist or are both
\* absent
C16_NeverPartial ==
  \A r \in DeletesDone : ~DeleteRunning(r) => (HasRow(r) <=> HasBlob(r))

\* C20: when two delete requests of one owner for one file have both
\* answered, at most one answered 204, the other answered 404 or 500, and
\* neither the row nor the blob exists (unless a failure of the database or
\* the disk was reported and the file is still whole)
C20_ConcurrentDeletes ==
  \A r, q \in DeletesDone :
    (r # q /\ req[r].user = req[q].user /\ req[r].target = req[q].target) =>
      /\ ~(req[r].resp = 204 /\ req[q].resp = 204)
      /\ req[r].resp \in {204, 404, 500} /\ req[q].resp \in {204, 404, 500}
      /\ \/ ~HasRow(r) /\ ~HasBlob(r)
         \/ HasRow(r) /\ HasBlob(r) /\ (req[r].ioerr \/ req[q].ioerr)

(***************************************************************************)
(* auth.rs: Keys::new, the seed of the key pair from the secret.  Rust     *)
(* indexes from 0: byte i of a slice is element i + 1 of the sequence.     *)
(***************************************************************************)
SeedLen == 32

\* the secrets of JWT_SECRET: every string of at most 2 bytes over two byte
\* values, and strings of 3, 31, 32 and 33 bytes
SecretBytes == {1, 2}
Pattern(n, k) == [i \in 1..n |-> IF i % k = 0 THEN 2 ELSE 1]
SecretInputs ==
  UNION {[1..n -> SecretBytes] : n \in 0..2}
    \cup {Pattern(n, k) : n \in {3, SeedLen - 1, SeedLen, SeedLen + 1},
                          k \in {2, 3}}

KeysInit ==
  /\ files = {}
  /\ blobs = <<>>
  /\ dirs = {}
  /\ nextId = 1
  /\ req = [r \in Reqs |-> Idle]
  /\ deleted204 = {}
  /\ started = 0
  /\ now = 0
  /\ cache = NewStatsCache
  /\ lock = 0
  /\ pg = NoPg
  /\ ls = NoLs
  /\ users = {}
  /\ cu = NoCu
  /\ su = NoSu
  /\ tk = NoTk
  /\ ks \in [pc : {"copy"}, secret : SecretInputs,
             seed : {[i \in 1..SeedLen |-> 0]}, len : {0}, i : {0}]

\* let mut seed = [0u8; 32]; let len = secret.len().min(32);
\* seed[..len].copy_from_slice(&secret[..len]); if len < 32 { for i in len..32
KeysCopy ==
  /\ ks.pc = "copy"
  /\ LET len == IF Len(ks.secret) < SeedLen THEN Len(ks.secret) ELSE SeedLen
     IN ks' = [ks EXCEPT !.len = len,
                 !.seed = [i \in 1..SeedLen |->
                             IF i <= len THEN ks.secret[i] ELSE 0],
                 !.i = len,
                 !.pc = IF len < SeedLen THEN "fill" ELSE "derive"]

\* one turn of the loop: seed[i] = seed[i % len], where a remainder by zero
\* panics
KeysFill ==
  /\ ks.pc = "fill"
  /\ ks' = IF ks.i >= SeedLen THEN [ks EXCEPT !.pc = "derive"]
           ELSE IF ks.len = 0 THEN [ks EXCEPT !.pc = "panicked"]
           ELSE [ks EXCEPT !.seed[ks.i + 1] = ks.seed[(ks.i % ks.len) + 1],
                           !.i = @ + 1]

\* SigningKey::from_bytes(&seed) and the two keys made from it
KeysDerive ==
  /\ ks.pc = "derive"
  /\ ks' = [ks EXCEPT !.pc = "done"]

KeysNext ==
  /\ KeysCopy \/ KeysFill \/ KeysDerive
  /\ UNCHANGED <<fvars, svars, ovars, su, tk>>

SpecKeys == KeysInit /\ [][KeysNext]_vars

\* C17: Keys::new completes for every secret, and the seed is the first 32
\* bytes of a secret of 32 bytes or more, and byte i = secret[i mod n] for a
\* shorter secret of n bytes
C17_SeedDerivation ==
  /\ ks.pc # "panicked"
  /\ ks.pc = "done" =>
       LET n == Len(ks.secret) IN
       \A i \in 0..(SeedLen - 1) :
         ks.seed[i + 1] = IF n >= SeedLen THEN ks.secret[i + 1]
                          ELSE ks.secret[(i % n) + 1]
====
